---- MODULE Spec2Model ----
(***************************************************************************)
(* Model of src/app.py: the image/annotation store behind the Flask        *)
(* handlers upload_image, delete_image, get_image, get_all,                *)
(* edit_annotations and get_predictions.                                   *)
(*                                                                         *)
(* The MongoDB collection is a sequence of documents in insertion order    *)
(* (the natural order of an unindexed scan).  No unique index is created   *)
(* on "filename" (src/app.py:46-49), so the collection may hold several    *)
(* documents with one filename; find_one, delete_one and update_one act    *)
(* on the first match.  insert_one fails on a document whose BSON          *)
(* encoding is larger than the 16 MiB a MongoDB document may have, and     *)
(* the exception reaches Flask, which answers 500.  The _id that           *)
(* insert_one adds is counted in the size of a document and otherwise      *)
(* left out: no handler reads it.                                          *)
(*                                                                         *)
(* Representation of data:                                                 *)
(*   - a filename is a sequence of one-character strings;                  *)
(*   - a byte sequence (an uploaded payload) is [data, pad]: the bytes     *)
(*     data followed by pad bytes of value 0, so that payloads of 16 MiB   *)
(*     are values TLC can hold;                                            *)
(*   - base64 text is [t, text, run, tail]: the ASCII codes text, then     *)
(*     run copies of "AAAA", then the ASCII codes tail; t is "bytes" for   *)
(*     a Python bytes object and "str" for a Python str;                   *)
(*   - a confidence is an integer number of hundredths.                    *)
(***************************************************************************)
EXTENDS Integers, Sequences, FiniteSets, TLC

VARIABLES
    store,      \* the documents of the collection, in the order of a scan
    pc,         \* per server thread: where its upload_image stands
    resp,       \* what the step just taken returned to its caller
    uploaded,   \* history: per filename, the last accepted upload that no
                \* later delete or edit of that filename has followed
    gone,       \* history: the filenames a delete reported deleted and no
                \* later upload has stored again
    live        \* history: accepted uploads minus reported deletions

vars == <<store, pc, resp, uploaded, gone, live>>

hist == <<uploaded, gone, live>>

----------------------------------------------------------------------------
(* Bounds of the model *)

\* the collection holds at most this many documents (guard of the insert)
MaxDocs == 2

----------------------------------------------------------------------------
(* Constants of the program *)

\* len(image_data) < 16777216
MaxPayloadBytes == 16777216

\* scores > 0.5, in hundredths
ConfidenceThreshold == 50

AllowedExtensions ==
    { <<"p","n","g">>, <<"j","p","g">>, <<"j","p","e","g">>, <<"g","i","f">> }

----------------------------------------------------------------------------
(* str.lower, str.rsplit and allowed_file *)

UpperCase == <<"A","B","C","D","E","F","G","H","I","J","K","L","M",
               "N","O","P","Q","R","S","T","U","V","W","X","Y","Z">>
LowerCase == <<"a","b","c","d","e","f","g","h","i","j","k","l","m",
               "n","o","p","q","r","s","t","u","v","w","x","y","z">>

LowerChar(c) ==
    IF \E i \in 1..26 : UpperCase[i] = c
    THEN LowerCase[CHOOSE i \in 1..26 : UpperCase[i] = c]
    ELSE c

Lower(s) == [i \in 1..Len(s) |-> LowerChar(s[i])]

HasDot(s) == \E i \in 1..Len(s) : s[i] = "."

\* filename.rsplit('.', 1)[1]: what follows the last dot
AfterLastDot(s) ==
    LET last == CHOOSE i \in 1..Len(s) :
                    s[i] = "." /\ \A j \in (i+1)..Len(s) : s[j] # "."
    IN  SubSeq(s, last + 1, Len(s))

allowed_file(filename) ==
    HasDot(filename) /\ Lower(AfterLastDot(filename)) \in AllowedExtensions

----------------------------------------------------------------------------
(* Byte sequences *)

Zeros(n) == [i \in 1..n |-> 0]

Bytes(data, pad) == [data |-> data, pad |-> pad]

LenBytes(b) == Len(b.data) + b.pad

RECURSIVE StripZeros(_)
StripZeros(s) ==
    IF s # <<>> /\ s[Len(s)] = 0 THEN StripZeros(SubSeq(s, 1, Len(s) - 1)) ELSE s

\* the one representation of a byte sequence with no zero at the end of data
Canon(b) ==
    LET d == StripZeros(b.data)
    IN  Bytes(d, b.pad + (Len(b.data) - Len(d)))

----------------------------------------------------------------------------
(* base64.b64encode, base64.b64decode, bytes.decode('utf-8') *)

\* "=", the padding character
PadChar == 61

B64Char(i) ==
    IF i < 26 THEN 65 + i
    ELSE IF i < 52 THEN 97 + (i - 26)
    ELSE IF i < 62 THEN 48 + (i - 52)
    ELSE IF i = 62 THEN 43
    ELSE 47

B64Index(c) == CHOOSE i \in 0..63 : B64Char(i) = c

RECURSIVE EncodeSeq(_)
EncodeSeq(s) ==
    IF Len(s) = 0 THEN <<>>
    ELSE IF Len(s) = 1 THEN
        << B64Char(s[1] \div 4), B64Char((s[1] % 4) * 16), PadChar, PadChar >>
    ELSE IF Len(s) = 2 THEN
        << B64Char(s[1] \div 4),
           B64Char((s[1] % 4) * 16 + (s[2] \div 16)),
           B64Char((s[2] % 16) * 4),
           PadChar >>
    ELSE
        << B64Char(s[1] \div 4),
           B64Char((s[1] % 4) * 16 + (s[2] \div 16)),
           B64Char((s[2] % 16) * 4 + (s[3] \div 64)),
           B64Char(s[3] % 64) >>
        \o EncodeSeq(SubSeq(s, 4, Len(s)))

RECURSIVE DecodeSeq(_)
DecodeSeq(t) ==
    IF Len(t) < 4 THEN <<>>
    ELSE
        LET a == B64Index(t[1])
            b == B64Index(t[2])
            rest == DecodeSeq(SubSeq(t, 5, Len(t)))
        IN  IF t[3] = PadChar THEN
                << a * 4 + (b \div 16) >>
            ELSE IF t[4] = PadChar THEN
                << a * 4 + (b \div 16),
                   (b % 16) * 16 + (B64Index(t[3]) \div 4) >>
            ELSE
                << a * 4 + (b \div 16),
                   (b % 16) * 16 + (B64Index(t[3]) \div 4),
                   (B64Index(t[3]) % 4) * 64 + B64Index(t[4]) >> \o rest

Min(a, b) == IF a < b THEN a ELSE b

\* base64.b64encode(image_data): the groups of data (completed with zeros of
\* the run), the whole groups of the run, the rest of the run
b64encode(b) ==
    LET r      == Len(b.data) % 3
        borrow == IF r = 0 THEN 0 ELSE Min(3 - r, b.pad)
        rest   == b.pad - borrow
    IN  [t    |-> "bytes",
         text |-> EncodeSeq(b.data \o Zeros(borrow)),
         run  |-> rest \div 3,
         tail |-> EncodeSeq(Zeros(rest % 3))]

\* base64.b64decode(e): every "AAAA" of the run is three zero bytes, and the
\* tail b64encode writes after a run holds zero bytes only
b64decode(e) ==
    Bytes(DecodeSeq(e.text), 3 * e.run + Len(DecodeSeq(e.tail)))

\* bytes.decode('utf-8') of ASCII bytes: one code point per byte, as a str
CodePoint(byte) == byte

Utf8Decode(e) ==
    [t    |-> "str",
     text |-> [i \in 1..Len(e.text) |-> CodePoint(e.text[i])],
     run  |-> e.run,
     tail |-> [i \in 1..Len(e.tail) |-> CodePoint(e.tail[i])]]

----------------------------------------------------------------------------
(* Values of the requests *)

None == <<"None">>
Str(s) == <<"str", s>>

FileA == <<"a", ".", "p", "n", "g">>
FileB == <<"b", ".", "1", ".", "J", "P", "G">>
FileT == <<"c", ".", "t", "x", "t">>
FileN == <<"r", "a", "w">>

EmptyPayload   == Bytes(<<>>, 0)
SmallPayload   == Bytes(<<255, 216>>, 0)
MidPayload     == Bytes(<<137>>, 11999999)
LargestPayload == Bytes(<<137>>, 16777214)
TooBigPayload  == Bytes(<<137>>, 16777215)

\* request.files and request.form of a POST /upload-image
UploadReq(has, f, d, a) ==
    [has_image |-> has, filename |-> f, data |-> d, annotations |-> a]

UploadRequests ==
    { UploadReq(FALSE, <<>>, EmptyPayload, None),
      UploadReq(TRUE, <<>>, SmallPayload, None),
      UploadReq(TRUE, FileN, SmallPayload, None),
      UploadReq(TRUE, FileT, SmallPayload, Str("[]")),
      UploadReq(TRUE, FileA, SmallPayload, Str("[]")),
      UploadReq(TRUE, FileA, MidPayload, Str("[]")),
      UploadReq(TRUE, FileA, LargestPayload, Str("[]")),
      UploadReq(TRUE, FileA, TooBigPayload, None),
      UploadReq(TRUE, FileB, EmptyPayload, None) }

\* the <filename> of the routes
LookupNames == {FileA, FileB, FileT}

\* request.json of a PUT /edit/<filename>: an object with or without the key
EditBodies == { [has_key |-> FALSE, annotations |-> None],
                [has_key |-> TRUE,  annotations |-> Str("[]")] }

\* the threads of the server that run upload_image
Clients == {"t1", "t2"}

----------------------------------------------------------------------------
(* The detector: result.pred and result.names *)

Row(box, conf, cls) == [box |-> box, conf |-> conf, cls |-> cls]

Names == <<"person", "bicycle", "car">>

GroupA == << Row(<<0, 0, 10, 10>>, 90, 0), Row(<<1, 1, 5, 5>>, 40, 1),
             Row(<<2, 2, 6, 6>>, 50, 2),   Row(<<3, 3, 9, 9>>, 51, 1) >>
GroupB == << Row(<<4, 4, 8, 8>>, 30, 0),   Row(<<5, 5, 7, 7>>, 100, 2) >>

DetectorOutputs ==
    { <<>>, <<GroupA>>, <<GroupB, <<>>, GroupA>> }

\* what cv2.imdecode and the detector do with the bytes of one request:
\* imdecode returns None, or an image for which the detector returns pred
Outcome(decoded, pred) == [decoded |-> decoded, pred |-> pred]

DetectorOutcomes ==
    { Outcome(FALSE, <<>>) } \cup { Outcome(TRUE, p) : p \in DetectorOutputs }

----------------------------------------------------------------------------
(* The collection *)

Doc(f, image, a) == [filename |-> f, image |-> image, annotations |-> a]

Matches(docs, f) == { i \in 1..Len(docs) : docs[i].filename = f }

\* the index of the document find_one, delete_one and update_one act on;
\* 0 when no document matches
FirstMatch(docs, f) ==
    IF Matches(docs, f) = {} THEN 0
    ELSE CHOOSE i \in Matches(docs, f) : \A j \in Matches(docs, f) : i <= j

RemoveAt(docs, i) == SubSeq(docs, 1, i - 1) \o SubSeq(docs, i + 1, Len(docs))

\* collection.find_one({'filename': f}) is not None
Found(docs, f) == FirstMatch(docs, f) # 0

\* the length of base64 text
EncodedLen(e) == Len(e.text) + 4 * e.run + Len(e.tail)

\* maxBsonObjectSize of the server: the largest document insert_one stores
MaxBsonObjectSize == 16777216

\* the size of the BSON encoding of a document: the length and the final
\* zero (5); per element a type byte and the name with its zero; a binary is
\* a length, a subtype and the bytes; a string is a length, the bytes and a
\* zero; None is empty; the ObjectId of _id is 12 bytes
BsonSize(doc) ==
    5 + (1 + 6 + 5 + EncodedLen(doc.image))
      + (1 + 9 + 5 + Len(doc.filename))
      + (1 + 12 + (IF doc.annotations = None THEN 0
                   ELSE 5 + Len(doc.annotations[2])))
      + (1 + 4 + 12)

\* collection.insert_one(db_entry) raises (DocumentTooLarge, or the write
\* error of the server) instead of storing the document
InsertRaises(doc) == BsonSize(doc) > MaxBsonObjectSize

\* collection.delete_one({'filename': f}): the collection after it
delete_one(docs, f) ==
    IF Found(docs, f) THEN RemoveAt(docs, FirstMatch(docs, f)) ELSE docs

\* collection.update_one({'filename': f}, {'$set': {'annotations': a}})
update_one(docs, f, a) ==
    IF Found(docs, f)
    THEN [docs EXCEPT ![FirstMatch(docs, f)].annotations = a]
    ELSE docs

\* a faulty variant: the count of the documents matched, not of those modified
MatchedCount(docs, f, a) == IF Found(docs, f) THEN 1 ELSE 0

\* result.modified_count: $set to the value the field already has modifies
\* nothing
modified_count(docs, f, a) ==
    IF Found(docs, f) /\ docs[FirstMatch(docs, f)].annotations # a THEN 1 ELSE 0

\* result.deleted_count
deleted_count(docs, f) == IF Found(docs, f) THEN 1 ELSE 0

----------------------------------------------------------------------------
(* Responses.  resp is what the step just taken returned to its caller:    *)
(* the operation, its arguments, the status and the JSON body; a step      *)
(* that returns nothing yet (the find_one of an upload) leaves NoResp.     *)

Resp(op, arg, status, body) ==
    [op |-> op, arg |-> arg, status |-> status, body |-> body]

NoResp == Resp("none", <<>>, 0, <<>>)

Message(m) == [message |-> m]

\* an exception no handler catches: Flask answers 500
Fault(op, arg) == Resp(op, arg, 500, Message("Internal Server Error"))

Idle == [at |-> "idle"]

NoUpload == [has_image |-> FALSE]

Init ==
    /\ store = <<>>
    /\ pc = [c \in Clients |-> Idle]
    /\ resp = NoResp
    /\ uploaded = [f \in LookupNames |-> NoUpload]
    /\ gone = {}
    /\ live = 0

----------------------------------------------------------------------------
(* upload_image *)

\* len(image_data) < 16777216
FitsLimit(image_data) == LenBytes(image_data) < MaxPayloadBytes

\* a faulty variant: the existence check never finds the file
FileExistsNever(docs, filename) == FALSE

\* collection.find_one({'filename': file.filename}) is not None
FileExists(docs, filename) == Found(docs, filename)

\* lines 64-77: the checks of the request and the find_one
UploadCheck(c, r) ==
    /\ pc[c].at = "idle"
    /\ UNCHANGED hist
    /\ \/ /\ ~r.has_image
          /\ resp' = Resp("upload", r, 400, Message("Image not in request"))
          /\ UNCHANGED <<store, pc>>
       \/ /\ r.has_image
          /\ ~(r.filename # <<>> /\ allowed_file(r.filename))
          /\ resp' = Resp("upload", r, 400, Message("Invalid request"))
          /\ UNCHANGED <<store, pc>>
       \/ /\ r.has_image
          /\ r.filename # <<>> /\ allowed_file(r.filename)
          /\ FileExists(store, r.filename)
          /\ resp' = Resp("upload", r, 400, Message("File already exists"))
          /\ UNCHANGED <<store, pc>>
       \/ /\ r.has_image
          /\ r.filename # <<>> /\ allowed_file(r.filename)
          /\ ~FileExists(store, r.filename)
          /\ pc' = [pc EXCEPT ![c] = [at |-> "read", req |-> r]]
          /\ resp' = NoResp
          /\ UNCHANGED store

\* lines 79-96: file.read(), the size test, b64encode and insert_one
UploadInsert(c) ==
    /\ pc[c].at = "read"
    /\ LET r == pc[c].req
           db_entry == Doc(r.filename, b64encode(r.data), r.annotations)
       IN  \/ /\ FitsLimit(r.data)
              /\ InsertRaises(db_entry)
              /\ store' = store
              /\ resp' = Fault("upload", r)
              /\ UNCHANGED hist
           \/ /\ FitsLimit(r.data)
              /\ ~InsertRaises(db_entry)
              /\ Len(store) < MaxDocs
              /\ store' = Append(store, db_entry)
              /\ resp' = Resp("upload", r, 200,
                              Message("File uploaded successfully"))
              /\ uploaded' = [uploaded EXCEPT ![r.filename] = r]
              /\ gone' = gone \ {r.filename}
              /\ live' = live + 1
           \/ /\ ~FitsLimit(r.data)
              /\ store' = store
              /\ resp' = Resp("upload", r, 400, Message("File too big"))
              /\ UNCHANGED hist
    /\ pc' = [pc EXCEPT ![c] = Idle]

----------------------------------------------------------------------------
(* delete_image *)

DeleteImage(filename) ==
    /\ \/ /\ deleted_count(store, filename) = 1
          /\ resp' = Resp("delete", filename, 200,
                          Message("File deleted successfully"))
          /\ gone' = gone \cup {filename}
          /\ live' = live - 1
       \/ /\ deleted_count(store, filename) # 1
          /\ resp' = Resp("delete", filename, 404,
                          Message("File not found in the database"))
          /\ UNCHANGED <<gone, live>>
    /\ store' = delete_one(store, filename)
    /\ uploaded' = [uploaded EXCEPT ![filename] = NoUpload]
    /\ UNCHANGED pc

----------------------------------------------------------------------------
(* get_image *)

\* lines 132-145; db_entry['image'] of None raises TypeError at line 134,
\* before the test of db_entry
GetImage(filename) ==
    /\ \/ /\ ~Found(store, filename)
          /\ resp' = Fault("get", filename)
       \/ /\ Found(store, filename)
          /\ LET db_entry == store[FirstMatch(store, filename)]
                 image_data_base64 == Utf8Decode(db_entry.image)
             IN  resp' = Resp("get", filename, 200,
                              [filename    |-> db_entry.filename,
                               annotations |-> db_entry.annotations,
                               image       |-> image_data_base64])
    /\ UNCHANGED <<store, pc, hist>>

----------------------------------------------------------------------------
(* get_all *)

\* a faulty variant: the images are left as bytes
ListingRaw(docs) == docs

\* lines 161-170: every document, in the order of the scan, its image decoded
Listing(docs) ==
    [i \in 1..Len(docs) |-> [docs[i] EXCEPT !.image = Utf8Decode(docs[i].image)]]

GetAll ==
    /\ resp' = Resp("get_all", <<>>, 200, Listing(store))
    /\ UNCHANGED <<store, pc, hist>>

----------------------------------------------------------------------------
(* edit_annotations *)

\* request.json.get('annotations', '')
NewAnnotations(json) == IF json.has_key THEN json.annotations ELSE Str("")

EditAnnotations(filename, json) ==
    LET new_annotations == NewAnnotations(json)
        arg == [filename |-> filename, annotations |-> new_annotations]
    IN  /\ \/ /\ modified_count(store, filename, new_annotations) = 1
              /\ resp' = Resp("edit", arg, 200,
                              Message("Annotations updated successfully"))
           \/ /\ modified_count(store, filename, new_annotations) # 1
              /\ resp' = Resp("edit", arg, 404,
                        Message("File not found or annotations not updated"))
        /\ store' = update_one(store, filename, new_annotations)
        /\ uploaded' = [uploaded EXCEPT ![filename] = NoUpload]
        /\ UNCHANGED <<pc, gone, live>>

----------------------------------------------------------------------------
(* get_predictions *)

\* a faulty variant: the threshold itself passes
AtLeastThreshold(score) == score >= ConfidenceThreshold

\* scores > 0.5
AboveThreshold(score) == score > ConfidenceThreshold

\* mask = scores > 0.5
Mask(scores) == [i \in 1..Len(scores) |-> AboveThreshold(scores[i])]

\* tensor[mask]: the rows whose mask is True, in their order
RECURSIVE Masked(_, _)
Masked(rows, mask) ==
    IF rows = <<>> THEN <<>>
    ELSE IF mask[1]
         THEN <<rows[1]>> \o Masked(SubSeq(rows, 2, Len(rows)),
                                    SubSeq(mask, 2, Len(mask)))
         ELSE Masked(SubSeq(rows, 2, Len(rows)), SubSeq(mask, 2, Len(mask)))

\* lines 224-243: the annotations of one element of result.pred
Annotations(pred) ==
    LET labels == [i \in 1..Len(pred) |-> pred[i].cls]
        scores == [i \in 1..Len(pred) |-> pred[i].conf]
        boxes  == [i \in 1..Len(pred) |-> pred[i].box]
        mask   == Mask(scores)
        filtered_labels == Masked(labels, mask)
        filtered_scores == Masked(scores, mask)
        filtered_boxes  == Masked(boxes, mask)
    IN  [i \in 1..Len(filtered_labels) |->
            [label      |-> Names[filtered_labels[i] + 1],
             confidence |-> filtered_scores[i],
             bbox       |-> filtered_boxes[i]]]

\* lines 221-245
FilteredPredictions(result_pred) ==
    [g \in 1..Len(result_pred) |-> Annotations(result_pred[g])]

\* lines 209-247.  db_entry['image'] of None raises TypeError at line 210,
\* before the test of db_entry.  cv2.imdecode and the detector are outside
\* the program: decoded says whether imdecode returned an image (model(None)
\* raises), result_pred is what the detector returned.
GetPredictions(filename, outcome) ==
    LET arg == [filename |-> filename, pred |-> outcome.pred]
        decoded == outcome.decoded
        result_pred == outcome.pred
    IN  /\ \/ /\ ~Found(store, filename)
              /\ resp' = Fault("predict", arg)
           \/ /\ Found(store, filename)
              /\ LenBytes(b64decode(store[FirstMatch(store, filename)].image)) = 0
              /\ resp' = Resp("predict", arg, 404, Message("File not found"))
           \/ /\ Found(store, filename)
              /\ LenBytes(b64decode(store[FirstMatch(store, filename)].image)) # 0
              /\ ~decoded
              /\ resp' = Fault("predict", arg)
           \/ /\ Found(store, filename)
              /\ LenBytes(b64decode(store[FirstMatch(store, filename)].image)) # 0
              /\ decoded
              /\ resp' = Resp("predict", arg, 200, FilteredPredictions(result_pred))
        /\ UNCHANGED <<store, pc, hist>>

----------------------------------------------------------------------------
(* The server: requests arrive in any order, and the two store calls of an *)
(* upload are separate steps that other requests may come between.         *)

Next ==
    \/ \E c \in Clients, r \in UploadRequests : UploadCheck(c, r)
    \/ \E c \in Clients : UploadInsert(c)
    \/ \E f \in LookupNames : DeleteImage(f)
    \/ \E f \in LookupNames : GetImage(f)
    \/ GetAll
    \/ \E f \in LookupNames, json \in EditBodies : EditAnnotations(f, json)
    \/ \E f \in LookupNames, o \in DetectorOutcomes : GetPredictions(f, o)

Spec == Init /\ [][Next]_vars

(* The same server when uploads run one after another: an upload starts    *)
(* only when no other upload is between its find_one and its insert_one.   *)

NoUploadRunning == \A c \in Clients : pc[c].at = "idle"

SeqUploadCheck(c, r) == NoUploadRunning /\ UploadCheck(c, r)

NextSeq ==
    \/ \E c \in Clients, r \in UploadRequests : SeqUploadCheck(c, r)
    \/ \E c \in Clients : UploadInsert(c)
    \/ \E f \in LookupNames : DeleteImage(f)
    \/ \E f \in LookupNames : GetImage(f)
    \/ GetAll
    \/ \E f \in LookupNames, json \in EditBodies : EditAnnotations(f, json)
    \/ \E f \in LookupNames, o \in DetectorOutcomes : GetPredictions(f, o)

SpecSeq == Init /\ [][NextSeq]_vars

----------------------------------------------------------------------------
(* Vocabulary of the properties *)

\* a live record has this filename
HasLive(docs, f) == \E i \in 1..Len(docs) : docs[i].filename = f

NumLive(docs, f) == Cardinality({ i \in 1..Len(docs) : docs[i].filename = f })

\* what a caller does with the image field of a response: the bytes of the
\* text, base64-decoded
TextDecode(image) == Canon(b64decode([image EXCEPT !.t = "bytes"]))

\* the payload a document holds
PayloadOf(doc) == Canon(b64decode(doc.image))

\* docs without its records named f, the others in their order
RECURSIVE Others(_, _)
Others(docs, f) ==
    IF docs = <<>> THEN <<>>
    ELSE IF docs[1].filename = f THEN Others(Tail(docs), f)
    ELSE <<docs[1]>> \o Others(Tail(docs), f)

----------------------------------------------------------------------------
(* C1 *)

\* C1: in every reachable state at most one live record has any given
\* filename, concurrent uploads of one filename included.
C1_UniqueFilename ==
    \A i, j \in 1..Len(store) :
        store[i].filename = store[j].filename => i = j

----------------------------------------------------------------------------
(* C2 *)

\* C2: when uploads run one after another, an upload whose filename has a
\* live record is answered 400 "File already exists" whatever its payload and
\* annotations, the store is left as it was, and it holds exactly one record
\* of that filename.
C2_DuplicateRejected ==
    [][ (resp'.op = "upload" /\ resp'.arg.has_image
            /\ HasLive(store, resp'.arg.filename))
        => /\ resp'.status = 400
           /\ resp'.body = Message("File already exists")
           /\ store' = store
           /\ NumLive(store', resp'.arg.filename) = 1 ]_vars

\* a second upload of a stored filename, with another payload and other
\* annotations than the stored ones, was rejected
C2_Witness ==
    /\ resp.op = "upload"
    /\ resp.status = 400
    /\ resp.body = Message("File already exists")
    /\ \E i \in 1..Len(store) :
          /\ store[i].filename = resp.arg.filename
          /\ PayloadOf(store[i]) # Canon(resp.arg.data)
          /\ store[i].annotations # resp.arg.annotations

----------------------------------------------------------------------------
(* C3 *)

\* C3: an upload with an allowed extension whose filename had no live record
\* at its existence check is accepted, and its record inserted, if and only
\* if the payload is shorter than 16,777,216 bytes; otherwise it is answered
\* 400 and the store is left as it was.
C3_SizeBoundary ==
    [][ \A c \in Clients :
          (pc[c].at = "read" /\ pc'[c].at = "idle") =>
             LET r == pc[c].req
             IN  IF LenBytes(r.data) < 16777216
                 THEN /\ resp'.status = 200
                      /\ Len(store') = Len(store) + 1
                      /\ SubSeq(store', 1, Len(store)) = store
                      /\ store'[Len(store')].filename = r.filename
                      /\ PayloadOf(store'[Len(store')]) = Canon(r.data)
                 ELSE /\ resp'.status = 400
                      /\ store' = store ]_vars

----------------------------------------------------------------------------
(* C4 *)

\* C4: get_image answers 200 with the filename, the annotations and the
\* text-encoded image of the record when the filename has a live record, and
\* 404 when it has none; it never ends in an unhandled fault.
C4_GetImage ==
    resp.op = "get" =>
        /\ resp.status # 500
        /\ IF HasLive(store, resp.arg)
           THEN /\ resp.status = 200
                /\ \E i \in 1..Len(store) :
                      /\ store[i].filename = resp.arg
                      /\ resp.body.filename = resp.arg
                      /\ resp.body.annotations = store[i].annotations
                      /\ resp.body.image.t = "str"
                      /\ TextDecode(resp.body.image) = PayloadOf(store[i])
           ELSE resp.status = 404

----------------------------------------------------------------------------
(* C5 *)

\* C5 as stated: an edit of a filename with a live record answers 200 for
\* every new value and leaves the record with exactly that value, filename
\* and payload as they were; an edit of a filename with no live record
\* answers 404 and leaves the store as it was; 404 only when the key is
\* absent.
C5_EditAsStated ==
    [][ resp'.op = "edit" =>
          LET f == resp'.arg.filename
              a == resp'.arg.annotations
          IN  IF HasLive(store, f)
              THEN /\ resp'.status = 200
                   /\ Len(store') = Len(store)
                   /\ \A i \in 1..Len(store) :
                         /\ store'[i].filename = store[i].filename
                         /\ store'[i].image = store[i].image
                         /\ store[i].filename = f => store'[i].annotations = a
              ELSE /\ resp'.status = 404
                   /\ store' = store ]_vars

\* C5 amended: an edit answers 200 exactly when the first live record of the
\* filename exists and holds annotations other than the new value; then that
\* record's annotations become the new value and nothing else changes.  In
\* every other case (no live record, or the new value equal to the stored
\* one) it answers 404 and the store is left as it was.
C5_EditAmended ==
    [][ resp'.op = "edit" =>
          LET f == resp'.arg.filename
              a == resp'.arg.annotations
              first == { i \in 1..Len(store) :
                           /\ store[i].filename = f
                           /\ \A j \in 1..(i - 1) : store[j].filename # f }
          IN  IF \E i \in first : store[i].annotations # a
              THEN /\ resp'.status = 200
                   /\ Len(store') = Len(store)
                   /\ \A i \in 1..Len(store) :
                         IF i \in first
                         THEN store'[i] = [store[i] EXCEPT !.annotations = a]
                         ELSE store'[i] = store[i]
              ELSE /\ resp'.status = 404
                   /\ store' = store ]_vars

\* an edit of a live record to the value it already holds was answered 404
C5_Witness ==
    /\ resp.op = "edit"
    /\ resp.status = 404
    /\ \E i \in 1..Len(store) :
          /\ store[i].filename = resp.arg.filename
          /\ store[i].annotations = resp.arg.annotations

\* an edit replaced the annotations of a live record
C5_WitnessReplaced ==
    /\ resp.op = "edit"
    /\ resp.status = 200
    /\ \E i \in 1..Len(store) :
          /\ store[i].filename = resp.arg.filename
          /\ store[i].annotations = resp.arg.annotations

----------------------------------------------------------------------------
(* C6 *)

\* C6: get_predictions of a filename with no live record answers 404, not an
\* unhandled fault.
C6_PredictNotFound ==
    (resp.op = "predict" /\ ~HasLive(store, resp.arg.filename))
        => resp.status = 404

----------------------------------------------------------------------------
(* C7 *)

\* C7: a delete of a filename with a live record answers 200, and afterwards
\* no live record has that filename and the records of other filenames are
\* as they were; a delete of a filename with no live record answers 404 and
\* leaves the store as it was.
C7_Delete ==
    [][ resp'.op = "delete" =>
          IF HasLive(store, resp'.arg)
          THEN /\ resp'.status = 200
               /\ ~HasLive(store', resp'.arg)
               /\ store' = Others(store, resp'.arg)
          ELSE /\ resp'.status = 404
               /\ store' = store ]_vars

----------------------------------------------------------------------------
(* C8 *)

\* the entries of a detection group with confidence above 0.5, in their
\* order, each with the label the vocabulary gives its class index
KeptOf(group) ==
    LET kept == SelectSeq(group, LAMBDA row : row.conf > 50)
    IN  [i \in 1..Len(kept) |->
            [label      |-> Names[kept[i].cls + 1],
             confidence |-> kept[i].conf,
             bbox       |-> kept[i].box]]

\* C8: get_predictions answers one list per detection group, in the order of
\* the groups; each list holds exactly the entries of its group with
\* confidence strictly above 0.5 (0.5 itself is dropped), in their order, each
\* with the label of its class index.  The store is left as it was.
C8_Filter ==
    [][ resp'.op = "predict" =>
          /\ store' = store
          /\ resp'.status = 200 =>
                /\ Len(resp'.body) = Len(resp'.arg.pred)
                /\ \A g \in 1..Len(resp'.arg.pred) :
                      resp'.body[g] = KeptOf(resp'.arg.pred[g]) ]_vars

\* three groups were filtered: the second empty, the third with confidences
\* 0.9, 0.4, 0.5, 0.51, of which 0.9 and 0.51 are kept in that order
C8_Witness ==
    /\ resp.op = "predict"
    /\ resp.status = 200
    /\ resp.arg.pred = <<GroupB, <<>>, GroupA>>
    /\ Len(resp.body) = 3
    /\ resp.body[2] = <<>>
    /\ Len(resp.body[3]) = 2
    /\ resp.body[3][1].confidence = 90
    /\ resp.body[3][2].confidence = 51

----------------------------------------------------------------------------
(* C9 *)

\* C9: after an accepted upload of payload B under filename f with
\* annotations a, and no delete or edit of f since, get_image of f answers
\* 200 with filename f, annotations a, and an image that text-decodes to B.
C9_RoundTrip ==
    (resp.op = "get" /\ uploaded[resp.arg].has_image) =>
        /\ resp.status = 200
        /\ resp.body.filename = resp.arg
        /\ resp.body.annotations = uploaded[resp.arg].annotations
        /\ resp.body.image.t = "str"
        /\ TextDecode(resp.body.image) = Canon(uploaded[resp.arg].data)

----------------------------------------------------------------------------
(* C10 *)

====
